---- MODULE Spec2Model ----
(***************************************************************************)
(* Model of the chat application's websocket consumer (consumers.py), its  *)
(* persistence (models.py) and the channel-layer groups it uses.           *)
(*                                                                         *)
(* One consumer instance per connection handles its events one at a time;  *)
(* consumers of different connections run concurrently.  new_message and   *)
(* share_file are two steps each: the database write, then group_send.     *)
(***************************************************************************)
EXTENDS Integers, Sequences, FiniteSets, TLC

\* ---------------------------------------------------------------- bounds
MaxFrames == 2          \* inbound frames the first connection receives
MaxRows == 42           \* Message rows of the paging specification
MaxCalls == 2           \* calls of Chat.create each caller makes

\* ------------------------------------------------------- program constants
MessagesPerPage == 20   \* _get_paginated_data(messages_per_page=20)

\* ------------------------------------------------------------- the world
Sessions == {"s1", "s2"}
Users == {"u1", "u2"}                     \* rows of the user table
Anonymous == "anonymous"                  \* scope["user"] before set_token
MissingUser == "u9"                       \* an id with no user row
Rooms == {"r1", "r2"}                     \* room_id of the Chat rows
UrlRooms == [s1 |-> {"r1"}, s2 |-> {"r1", "r2"}]  \* the room of each client's URL
MissingRoom == "r9"                       \* a well-formed uuid with no Chat row
MalformedRoom == "not-a-uuid"             \* a string that is no uuid
TokenStore == [t1 |-> "u1"]               \* Token.key -> Token.user
BadToken == "t9"
GatedCommands == {"fetch_messages", "new_message", "share_file"}

VARIABLES
    status,      \* session -> "new" | "open" | "closing" | "closed" | "crashed"
    room_name,   \* session -> the room id of its URL (self.room_name)
    user,        \* session -> scope["user"]
    groups,      \* channel layer: group name -> set of channels (sessions)
    inbox,       \* channel layer: session -> events queued for its consumer
    wire,        \* session -> what the server wrote to the websocket, in order
    is_deleted,  \* Chat table: room id -> Chat.is_deleted
    chats,       \* Chat table: the rows Chat.create inserted (row i has id i)
    creating,    \* caller of Chat.create -> its arguments and where it stands
    messages,    \* Message table, in commit order (row i has id i)
    attachments, \* Attachment table
    blobs,       \* files held by the storage backend
    pc,          \* session -> "idle" | "send" (between commit and group_send)
    pending,     \* session -> the content its handler is about to group_send
    nrecv,       \* session -> number of frames received so far
    nlate,       \* session -> number of frames received after its socket closed
    audit,       \* message id -> the live sessions joined to its room at commit
    last         \* the step just taken

vars == <<status, room_name, user, groups, inbox, wire, is_deleted, chats, creating,
          messages, attachments, blobs, pc, pending, nrecv, nlate, audit, last>>

\* The callers of Chat.create, the profiles a chat can belong to (None
\* included), and a caller that is not inside a call.
Callers == {"c1", "c2"}
NoProfile == "None"
Profiles == {NoProfile, "p1"}
NoCall == [pc |-> "idle", participant1 |-> "none", participant2 |-> "none",
           profile |-> NoProfile, result |-> 0, calls |-> 0]

\* ------------------------------------------------------------- frames
NoRoom == "none"
NoContent == [command |-> "none"]
CloseFrame == [type |-> "websocket.close"]
ErrorFrame(text) == [command |-> "error", message |-> text]

IsCommand(f, c) == "command" \in DOMAIN f /\ f.command = c
\* A message view, as message_to_json builds it, has an id and no command.
IsView(f) == "id" \in DOMAIN f

Email(u) == u \o "@example.org"
Str(x) == ToString(x)

GroupName(room) == "chat_" \o room
GroupNames == {GroupName(r) : r \in Rooms}

\* The frames a client may send.  Fields a command does not read are "none".
\* data.get("command", ""): the command of a frame that carries none.
NoCommand == ""
Frame(c, t, a, r, p, f) ==
    [command |-> c, token |-> t, from |-> a, room_id |-> r, page_number |-> p, file |-> f]
SetTokenFrames ==
    {Frame("set_token", t, "none", "none", 1, "none") : t \in DOMAIN TokenStore \cup {BadToken}}
InFrames ==
    SetTokenFrames
    \cup {Frame("fetch_messages", "none", "none", r, 1, "none") :
            r \in {"r1", MissingRoom, MalformedRoom}}
    \cup {Frame("new_message", "none", a, r, 1, "none") : a \in {"u1"}, r \in Rooms}
    \cup {Frame("new_message", "none", a, "r1", 1, "none") : a \in {"u2", MissingUser}}
    \cup {Frame("new_message", "none", "u1", r, 1, "none") : r \in {MissingRoom, MalformedRoom}}
    \cup {Frame("share_file", "none", "u1", "r1", 1, f) : f \in {"list", "str"}}
    \cup {Frame("share_file", "none", MissingUser, "r1", 1, "list"),
          Frame("share_file", "none", "u1", MissingRoom, 1, "list"),
          Frame("share_file", "none", "u1", "r2", 1, "list")}
    \cup {Frame(c, "none", "none", "none", 1, "none") : c \in {"ping", NoCommand}}
\* The second client authenticates and writes messages.
PeerFrames ==
    SetTokenFrames
    \cup {Frame("new_message", "none", "u1", r, 1, "none") : r \in Rooms}
ClientFrames == [s1 |-> InFrames, s2 |-> PeerFrames]
\* The first client receives up to MaxFrames frames, the second one two.
Budget == [s1 |-> MaxFrames, s2 |-> 2]
\* The frames a client had sent before its socket was closed and the consumer
\* still finds in its queue: at most one for the first client.
Queued == [s1 |-> 1, s2 |-> 0]
\* The clients that may drop their connection; the second one stays until
\* the server closes it.
Leavers == {"s1"}

\* ------------------------------------------------------- the connection
\* The part of a session a handler writes: its socket and what went over it.
Conn(s) == [status |-> status[s], wire |-> wire[s]]

\* self.send: a frame written to a socket that is no longer open is lost.
Send(c, frame) ==
    IF c.status = "open" THEN [c EXCEPT !.wire = Append(@, frame)] ELSE c

SendMessage(c, content) == Send(c, content)

\* self.close(): the close frame goes out; disconnect() runs later.
Close(c) ==
    IF c.status = "open"
    THEN [status |-> "closing", wire |-> Append(c.wire, CloseFrame)]
    ELSE c

\* An exception leaves the handler: the consumer dies, the server closes the
\* socket, and disconnect() is never called.
Crash(c) ==
    [status |-> "crashed",
     wire |-> IF c.status = "open" THEN Append(c.wire, CloseFrame) ELSE c.wire]

\* ------------------------------------------------------------ database
NoData == Frame("none", "none", "none", "none", 1, "none")

\* User.objects.get(id=...): the row, or User.DoesNotExist.
UserExists(id) == id \in Users

\* Chat.objects.get(room_id=...): room_id is a UUIDField, so a string that is
\* no uuid raises ValidationError, which is not Chat.DoesNotExist.
ChatGet(room_id) ==
    IF room_id = MalformedRoom THEN "ValidationError"
    ELSE IF room_id \in Rooms THEN "found"
    ELSE "DoesNotExist"

\* Message.objects.create(author, chat, text): the next id, the server's time
\* of creation, viewed = False by default.
NewMessageRow(author, chat, text) ==
    [id |-> Len(messages) + 1, author |-> author, chat |-> chat, text |-> text,
     created_at |-> Len(messages) + 1, viewed |-> FALSE]

\* The file descriptor of a share_file frame.
FileData == [filename |-> "a.png", size |-> 3]
FileName == FileData.filename
\* os.path.splitext(filename)[1][1:]
Extension(filename) == IF filename = "a.png" THEN "png" ELSE ""

\* The row is built and never saved.
CreateMessageUnsaved(table, row) == table

\* Message.objects.create(...) saves the row.
CreateMessage(table, row) == Append(table, row)

\* get_path(instance, filename): the storage backend's name for the upload.
GetPath(message_id, filename) == "chat_files/" \o ToString(message_id) \o "_" \o filename

\* Attachment.objects.create(message, filename, size, extension): the file
\* field is empty until file.save() has stored the bytes.
NewAttachmentRow(message_id, filename, file) ==
    [message |-> message_id, filename |-> filename, size |-> FileData.size,
     extension |-> Extension(filename), file |-> file]

HasAttachment(atts, m) == \E a \in atts : a.message = m.id
AttachmentOf(atts, m) == CHOOSE a \in atts : a.message = m.id

AttachmentJson(a) ==
    [filename |-> a.filename, size |-> a.size, url |-> a.file, extension |-> a.extension]

\* message_to_json: the attachment key is present iff the message owns one.
MessageToJson(atts, m) ==
    IF HasAttachment(atts, m)
    THEN [id |-> m.id, author |-> Email(m.author), content |-> m.text,
          timestamp |-> Str(m.created_at), room_id |-> m.chat,
          attachment |-> AttachmentJson(AttachmentOf(atts, m))]
    ELSE [id |-> m.id, author |-> Email(m.author), content |-> m.text,
          timestamp |-> Str(m.created_at), room_id |-> m.chat]

\* ------------------------------------------------------------- paging
RECURSIVE OrderByCreatedDesc(_)
\* chat.messages.order_by("-created_at"): newest first.
OrderByCreatedDesc(rows) ==
    IF rows = {} THEN <<>>
    ELSE LET newest == CHOOSE m \in rows : \A n \in rows : n.created_at <= m.created_at
         IN <<newest>> \o OrderByCreatedDesc(rows \ {newest})

ChatMessages(table, chat) == {table[i] : i \in {j \in 1..Len(table) : table[j].chat = chat}}

CeilDiv(a, b) == (a + b - 1) \div b

\* Paginator.num_pages: an empty list still has a first page.
NumPages(count, per_page) == IF count = 0 THEN 1 ELSE CeilDiv(count, per_page)

\* A number outside 1..num_pages is answered with the first page.
GetPageNumberFirst(number, count, per_page) ==
    IF number < 1 \/ number > NumPages(count, per_page) THEN 1 ELSE number

\* Paginator.get_page(number): a number outside 1..num_pages is answered with
\* the last page.
GetPageNumber(number, count, per_page) ==
    IF number < 1 \/ number > NumPages(count, per_page)
    THEN NumPages(count, per_page)
    ELSE number

Min(a, b) == IF a < b THEN a ELSE b

\* The slice starts one row late.
PageSliceOffByOne(list, number, per_page) ==
    LET bottom == (number - 1) * per_page + 1
        top == Min(bottom + per_page, Len(list))
    IN SubSeq(list, bottom + 1, top)

\* Paginator.page(number): object_list[bottom:top].
PageSlice(list, number, per_page) ==
    LET bottom == (number - 1) * per_page
        top == Min(bottom + per_page, Len(list))
    IN SubSeq(list, bottom + 1, top)

\* The paginator's own page count, which is 1 for an empty list.
MaxPagesOfPaginator(count, per_page) == NumPages(count, per_page)

\* max_pages = math.ceil(paginator.count / paginator.per_page)
MaxPages(count, per_page) == CeilDiv(count, per_page)

\* _get_paginated_data(chat, page_number): (messages, max_pages).
GetPaginatedData(table, chat, page_number) ==
    LET list == OrderByCreatedDesc(ChatMessages(table, chat))
        count == Len(list)
    IN [messages |-> PageSlice(list, GetPageNumber(page_number, count, MessagesPerPage),
                               MessagesPerPage),
        max_pages |-> MaxPages(count, MessagesPerPage)]

MessagesToJson(atts, list) == [i \in 1..Len(list) |-> MessageToJson(atts, list[i])]

MessagesFrame(atts, page) ==
    [command |-> "messages", messages |-> MessagesToJson(atts, page.messages),
     max_pages |-> page.max_pages]

\* ------------------------------------------------------------- state
\* The bookkeeping of a step that receives no frame.
NoStep == [op |-> "other", s |-> "none", data |-> NoData, auth |-> FALSE, fault |-> "none"]

Init ==
    /\ status = [s \in Sessions |-> "new"]
    /\ room_name = [s \in Sessions |-> NoRoom]
    /\ user = [s \in Sessions |-> Anonymous]
    /\ groups = [g \in GroupNames |-> {}]
    /\ inbox = [s \in Sessions |-> <<>>]
    /\ wire = [s \in Sessions |-> <<>>]
    /\ is_deleted = [r \in Rooms |-> FALSE]
    /\ chats = <<>>
    /\ creating = [c \in Callers |-> NoCall]
    /\ messages = <<>>
    /\ attachments = {}
    /\ blobs = {}
    /\ pc = [s \in Sessions |-> "idle"]
    /\ pending = [s \in Sessions |-> NoContent]
    /\ nrecv = [s \in Sessions |-> 0]
    /\ nlate = [s \in Sessions |-> 0]
    /\ audit = <<>>
    /\ last = NoStep

IsAuthenticated(s) == user[s] # Anonymous

\* Bookkeeping of a receive step: the frame it received, for whom, whether
\* the session was authenticated when it arrived, and what failed meanwhile.
StepFault(op, s, d, fault) ==
    last' = [op |-> op, s |-> s, data |-> d, auth |-> IsAuthenticated(s), fault |-> fault]

SetConn(s, c) ==
    /\ status' = [status EXCEPT ![s] = c.status]
    /\ wire' = [wire EXCEPT ![s] = c.wire]

\* The live sessions joined to a room's group.
LiveMembers(room) == {t \in groups[GroupName(room)] : status[t] = "open"}

\* --------------------------------------------------- connect / disconnect
\* The channel is added to every group.
GroupAddEverywhere(g, group, s) == [x \in DOMAIN g |-> g[x] \cup {s}]

\* group_add(group, channel)
GroupAdd(g, group, s) == [g EXCEPT ![group] = @ \cup {s}]

\* connect(): room_name from the URL, group_add, accept.
Connect(s, room) ==
    /\ status[s] = "new"
    /\ room_name' = [room_name EXCEPT ![s] = room]
    /\ groups' = GroupAdd(groups, GroupName(room), s)
    /\ status' = [status EXCEPT ![s] = "open"]
    /\ last' = NoStep
    /\ UNCHANGED <<is_deleted, chats, creating, user, inbox, wire, messages, attachments, blobs, pc, pending,
                   nrecv, nlate, audit>>

\* The client drops the connection: the socket is dead at once, the
\* consumer's disconnect() runs when its turn comes.
ClientDisconnect(s) ==
    /\ status[s] = "open"
    /\ status' = [status EXCEPT ![s] = "closing"]
    /\ last' = NoStep
    /\ UNCHANGED <<is_deleted, chats, creating, room_name, user, groups, inbox, wire, messages, attachments,
                   blobs, pc, pending, nrecv, nlate, audit>>

\* The whole group is dropped.
GroupDiscardGroup(g, group, s) == [g EXCEPT ![group] = {}]

\* group_discard(group, channel): removing an absent channel is no error.
GroupDiscard(g, group, s) == [g EXCEPT ![group] = @ \ {s}]

\* disconnect(close_code): leave the group; the consumer stops and reads no
\* further event.  The events queued before the disconnect event were
\* handled on a closed socket and wrote nothing.
Disconnect(s) ==
    /\ status[s] = "closing"
    /\ pc[s] = "idle"
    /\ groups' = GroupDiscard(groups, GroupName(room_name[s]), s)
    /\ status' = [status EXCEPT ![s] = "closed"]
    /\ inbox' = [inbox EXCEPT ![s] = <<>>]
    /\ last' = NoStep
    /\ UNCHANGED <<is_deleted, chats, creating, room_name, user, wire, messages, attachments, blobs, pc,
                   pending, nrecv, nlate, audit>>

\* ------------------------------------------------------------- receive
\* receive(text_data) is called for every frame the server queued for the
\* consumer; nothing in it asks whether the socket was closed meanwhile.
CanReceive(s) ==
    /\ pc[s] = "idle"
    /\ nrecv[s] < Budget[s]
    /\ \/ status[s] = "open"
       \/ status[s] = "closing" /\ nlate[s] < Queued[s]
CanHandle(s) == CanReceive(s) /\ IsAuthenticated(s)

ReceivedFault(s, d, fault) ==
    /\ nrecv' = [nrecv EXCEPT ![s] = @ + 1]
    /\ nlate' = [nlate EXCEPT ![s] = IF status[s] = "open" THEN @ ELSE @ + 1]
    /\ StepFault("receive", s, d, fault)
Received(s, d) == ReceivedFault(s, d, "none")

\* The socket is closed before the error is written.
InvalidTokenCloseFirst(c) == SendMessage(Close(c), ErrorFrame("Invalid token."))

\* authenticate_user(token) for a token the store does not hold.
InvalidToken(c) == Close(SendMessage(c, ErrorFrame("Invalid token.")))

\* receive(), command == "set_token".
ReceiveSetToken(s, d) ==
    /\ CanReceive(s)
    /\ d.command = "set_token"
    /\ IF d.token \in DOMAIN TokenStore
       THEN /\ user' = [user EXCEPT ![s] = TokenStore[d.token]]
            /\ UNCHANGED <<status, wire>>
       ELSE /\ SetConn(s, InvalidToken(Conn(s)))
            /\ UNCHANGED user
    /\ Received(s, d)
    /\ UNCHANGED <<is_deleted, chats, creating, room_name, groups, inbox, messages, attachments, blobs, pc,
                   pending, audit>>

\* An error frame is written before the socket is closed.
UnauthenticatedWithError(c) == Close(SendMessage(c, ErrorFrame("Not authenticated.")))

\* receive(), one of the three commands from a session that is not
\* authenticated: self.close().
Unauthenticated(c) == Close(c)

ReceiveUnauthenticated(s, d) ==
    /\ CanReceive(s)
    /\ d.command \in GatedCommands
    /\ ~IsAuthenticated(s)
    /\ SetConn(s, Unauthenticated(Conn(s)))
    /\ Received(s, d)
    /\ UNCHANGED <<is_deleted, chats, creating, room_name, user, groups, inbox, messages, attachments, blobs,
                   pc, pending, audit>>

\* handle_commands' last branch, taken for any other command.
OtherCommandInvalid(c) == SendMessage(c, ErrorFrame("Invalid command."))

\* receive(), any other command: neither branch of the if is taken, so
\* handle_commands and its "Invalid command." reply are never reached.
OtherCommand(c) == c

ReceiveOther(s, d) ==
    /\ CanReceive(s)
    /\ d.command \notin GatedCommands \cup {"set_token"}
    /\ SetConn(s, OtherCommand(Conn(s)))
    /\ Received(s, d)
    /\ UNCHANGED <<is_deleted, chats, creating, room_name, user, groups, inbox, messages, attachments, blobs,
                   pc, pending, audit>>

\* fetch_messages(data).
FetchMessages(c, table, atts, d) ==
    LET found == ChatGet(d.room_id)
    IN IF found = "ValidationError" THEN Crash(c)
       ELSE IF found = "DoesNotExist"
       THEN SendMessage(c, ErrorFrame("Chat room not found."))
       ELSE SendMessage(c, MessagesFrame(atts, GetPaginatedData(table, d.room_id, d.page_number)))

ReceiveFetchMessages(s, d) ==
    /\ CanHandle(s)
    /\ d.command = "fetch_messages"
    /\ SetConn(s, FetchMessages(Conn(s), messages, attachments, d))
    /\ Received(s, d)
    /\ UNCHANGED <<is_deleted, chats, creating, room_name, user, groups, inbox, messages, attachments, blobs,
                   pc, pending, audit>>

\* ----------------------------------------------------------- new_message
\* The try block of new_message up to the row it needs: the author first,
\* then the chat.
NewMessageLookup(d) ==
    IF ~UserExists(d.from) THEN "User.DoesNotExist"
    ELSE IF ChatGet(d.room_id) = "DoesNotExist" THEN "Chat.DoesNotExist"
    ELSE ChatGet(d.room_id)

\* The except clauses of new_message; any other exception leaves the handler.
NewMessageFailed(c, outcome) ==
    IF outcome = "User.DoesNotExist" THEN SendMessage(c, ErrorFrame("Author not found."))
    ELSE IF outcome = "Chat.DoesNotExist" THEN SendMessage(c, ErrorFrame("Chat room not found."))
    ELSE Crash(c)

MessageText == "hi"

\* What send_chat_message hands to group_send: {"type": "chat_message", **content}.
ChatEvent(content) == [type |-> "chat_message"] @@ content

AuditRow(row, via) == [members |-> LiveMembers(row.chat), via |-> via, by |-> row.author]

\* new_message(data), up to and including Message.objects.create.
ReceiveNewMessage(s, d) ==
    /\ CanHandle(s)
    /\ d.command = "new_message"
    /\ LET outcome == NewMessageLookup(d)
           row == NewMessageRow(d.from, d.room_id, MessageText)
       IN IF outcome = "found"
             THEN /\ messages' = CreateMessage(messages, row)
                  /\ audit' = Append(audit, AuditRow(row, "new_message"))
                  /\ pending' = [pending EXCEPT ![s] =
                        [command |-> "new_message",
                         message |-> MessageToJson(attachments, row)]]
                  /\ pc' = [pc EXCEPT ![s] = "send"]
                  /\ UNCHANGED <<status, wire>>
             ELSE /\ SetConn(s, NewMessageFailed(Conn(s), outcome))
                  /\ UNCHANGED <<messages, audit, pending, pc>>
    /\ Received(s, d)
    /\ UNCHANGED <<is_deleted, chats, creating, room_name, user, groups, inbox, attachments, blobs>>

\* ------------------------------------------------------------ share_file
\* Without the atomic block the rows written before the exception stay.
TransactionNotAtomic(before, reached, raised) == reached

\* transaction.atomic(): the rows written inside the block are kept only
\* if no exception left it.
TransactionAtomic(before, reached, raised) == IF raised THEN before ELSE reached

Faults == {"none", "blob", "save"}

\* The block of share_file: the Message row, the Attachment row, then
\* file.save(), which stores the bytes and saves the row again.  "blob" is a
\* failure of the storage write, "save" one of the row's save after it.
ShareFileWrites(db, author, chat, filename, fault) ==
    LET row == NewMessageRow(author, chat, "File: " \o filename)
        path == GetPath(row.id, filename)
    IN [messages |-> CreateMessage(db.messages, row),
        attachments |-> db.attachments \cup
            {NewAttachmentRow(row.id, filename, IF fault = "none" THEN path ELSE "")},
        stored |-> IF fault = "blob" THEN {} ELSE {path}]

\* The lookups of share_file and bytes(file_content), which raises TypeError
\* for a str.
ShareFileLookup(d) ==
    IF ~UserExists(d.from) THEN "User.DoesNotExist"
    ELSE IF ChatGet(d.room_id) = "DoesNotExist" THEN "Chat.DoesNotExist"
    ELSE IF ChatGet(d.room_id) # "found" THEN ChatGet(d.room_id)
    ELSE IF d.file = "str" THEN "TypeError"
    ELSE "found"

\* except (User.DoesNotExist, Chat.DoesNotExist) as e: the message is str(e).
ShareFileFailed(c, outcome) ==
    IF outcome = "User.DoesNotExist"
    THEN SendMessage(c, ErrorFrame("User matching query does not exist."))
    ELSE IF outcome = "Chat.DoesNotExist"
    THEN SendMessage(c, ErrorFrame("Chat matching query does not exist."))
    ELSE Crash(c)

\* share_file(data), up to the end of the atomic block.
ReceiveShareFile(s, d, fault) ==
    /\ CanHandle(s)
    /\ d.command = "share_file"
    /\ LET outcome == ShareFileLookup(d)
           before == [messages |-> messages, attachments |-> attachments]
           reached == ShareFileWrites(before, d.from, d.room_id, FileName, fault)
           after == TransactionAtomic(before,
                        [messages |-> reached.messages, attachments |-> reached.attachments],
                        fault # "none")
           row == reached.messages[Len(reached.messages)]
       IN /\ outcome # "found" => fault = "none"
          /\ IF outcome = "found"
             THEN /\ messages' = after.messages
                  /\ attachments' = after.attachments
                  /\ blobs' = blobs \cup reached.stored
                  /\ IF fault = "none"
                     THEN /\ audit' = Append(audit, AuditRow(row, "share_file"))
                          /\ pending' = [pending EXCEPT ![s] =
                                [command |-> "new_message", author |-> d.from,
                                 message |-> MessageToJson(after.attachments, row)]]
                          /\ pc' = [pc EXCEPT ![s] = "send"]
                          /\ UNCHANGED <<status, wire>>
                     ELSE /\ SetConn(s, Crash(Conn(s)))
                          /\ UNCHANGED <<audit, pending, pc>>
             ELSE /\ SetConn(s, ShareFileFailed(Conn(s), outcome))
                  /\ UNCHANGED <<messages, attachments, blobs, audit, pending, pc>>
    /\ ReceivedFault(s, d, fault)
    /\ UNCHANGED <<is_deleted, chats, creating, room_name, user, groups, inbox>>

\* ------------------------------------------------------------- broadcast
\* channel_layer.group_send(group, event): the event is queued for every
\* channel that is in the group now.
GroupSendTo(boxes, members, event) ==
    [t \in Sessions |-> IF t \in members THEN Append(boxes[t], event) ELSE boxes[t]]

\* The group send_chat_message uses: the one of the connection.
BroadcastGroup(s, content) == GroupName(room_name[s])

\* send_chat_message(content): the second step of new_message and share_file.
SendChatMessage(s) ==
    /\ pc[s] = "send"
    /\ inbox' = GroupSendTo(inbox, groups[BroadcastGroup(s, pending[s])], ChatEvent(pending[s]))
    /\ pc' = [pc EXCEPT ![s] = "idle"]
    /\ pending' = [pending EXCEPT ![s] = NoContent]
    /\ last' = NoStep
    /\ UNCHANGED <<is_deleted, chats, creating, status, room_name, user, groups, wire, messages, attachments,
                   blobs, nrecv, nlate, audit>>

\* What chat_message writes to the socket: event["message"].
ChatMessageFrame(event) == event.message

\* chat_message(event): the consumer takes the next event of its channel.
\* (On a closed socket the write is lost: those events are taken together
\* with the disconnect event, in Disconnect.)
ChatMessage(s) ==
    /\ status[s] = "open"
    /\ pc[s] = "idle"
    /\ inbox[s] # <<>>
    /\ SetConn(s, Send(Conn(s), ChatMessageFrame(Head(inbox[s]))))
    /\ inbox' = [inbox EXCEPT ![s] = Tail(@)]
    /\ last' = NoStep
    /\ UNCHANGED <<is_deleted, chats, creating, room_name, user, groups, messages, attachments, blobs, pc,
                   pending, nrecv, nlate, audit>>

\* --------------------------------------------------------- specification
Next ==
    \/ \E s \in Sessions : \E room \in UrlRooms[s] : Connect(s, room)
    \/ \E s \in Leavers : ClientDisconnect(s)
    \/ \E s \in Sessions : Disconnect(s)
    \/ \E s \in Sessions : \E d \in ClientFrames[s] : ReceiveSetToken(s, d)
    \/ \E s \in Sessions : \E d \in ClientFrames[s] : ReceiveUnauthenticated(s, d)
    \/ \E s \in Sessions : \E d \in ClientFrames[s] : ReceiveOther(s, d)
    \/ \E s \in Sessions : \E d \in ClientFrames[s] : ReceiveFetchMessages(s, d)
    \/ \E s \in Sessions : \E d \in ClientFrames[s] : ReceiveNewMessage(s, d)
    \/ \E s \in Sessions : \E d \in ClientFrames[s], fault \in Faults : ReceiveShareFile(s, d, fault)
    \/ \E s \in Sessions : SendChatMessage(s)
    \/ \E s \in Sessions : ChatMessage(s)

Spec == Init /\ [][Next]_vars

\* ------------------------------------------------------------ REST views
\* ChatDeleteView.delete: get_object_or_404 over the chats that are not
\* deleted (a deleted or unknown chat is answered 404 and nothing changes),
\* then is_deleted = True and save().
ChatDelete(room) ==
    /\ room \in Rooms
    /\ ~is_deleted[room]
    /\ is_deleted' = [is_deleted EXCEPT ![room] = TRUE]
    /\ last' = NoStep
    /\ UNCHANGED <<chats, creating, status, room_name, user, groups, inbox, wire, messages, attachments,
                   blobs, pc, pending, nrecv, nlate, audit>>

\* The URL keyword argument a view's get_object() looks the chat up by:
\* lookup_url_kwarg or lookup_field; MarkMessagesAsViewedView sets neither.
LookupUrlKwarg == "pk"
\* urls.py routes "<int:chat_id>/viewed/" to MarkMessagesAsViewedView; "pk" is
\* the view reached under the name it looks for.
UrlKwargs == {"chat_id", "pk"}

\* get_object() over Chat.objects.filter(is_deleted=False): an assertion
\* fails when the URL keyword argument is missing; an unknown or deleted chat
\* is answered 404.
GetObject(kwarg, room) ==
    IF kwarg # LookupUrlKwarg THEN "AssertionError"
    ELSE IF room \in Rooms /\ ~is_deleted[room] THEN "found"
    ELSE "Http404"

\* Every message of the chat that is not viewed is marked, the requester's
\* own too.
MarkViewedAll(table, chat, requester) ==
    [i \in DOMAIN table |->
        IF table[i].chat = chat /\ ~table[i].viewed
        THEN [table[i] EXCEPT !.viewed = TRUE]
        ELSE table[i]]

\* chat.messages.filter(viewed=False).exclude(author=request.user)
\*     .update(viewed=True)
MarkViewed(table, chat, requester) ==
    [i \in DOMAIN table |->
        IF table[i].chat = chat /\ ~table[i].viewed /\ table[i].author # requester
        THEN [table[i] EXCEPT !.viewed = TRUE]
        ELSE table[i]]

\* MarkMessagesAsViewedView.patch, requested by requester for the chat of
\* room, the view being called with the URL keyword argument kwarg.
MarkMessagesAsViewed(requester, kwarg, room) ==
    /\ requester \in Users
    /\ LET found == GetObject(kwarg, room)
       IN /\ messages' = IF found = "found" THEN MarkViewed(messages, room, requester)
                         ELSE messages
          /\ last' = [op |-> "patch", s |-> "none",
                      data |-> Frame("viewed", "none", requester, room, 1, "none"),
                      auth |-> TRUE, fault |-> "none"]
    /\ UNCHANGED <<status, room_name, user, groups, inbox, wire, is_deleted, chats, creating, attachments,
                   blobs, pc, pending, nrecv, nlate, audit>>

\* The consumers together with the REST views.
NextViews ==
    \/ Next
    \/ \E room \in Rooms : ChatDelete(room)

SpecViews == Init /\ [][NextViews]_vars

\* ------------------------------------------------------------ Chat.create
\* cls.objects.filter(profile=profile, participants=participant1)
\*     .filter(participants=participant2), or profile__isnull=True when the
\* call has no profile: the ids of the chats of that profile that both
\* participants belong to.
ChatFilter(table, participant1, participant2, profile) ==
    {i \in DOMAIN table :
        /\ table[i].profile = profile
        /\ participant1 \in table[i].participants
        /\ participant2 \in table[i].participants}

\* queryset.first(): the row with the lowest id.
First(ids) == CHOOSE i \in ids : \A j \in ids : i <= j

\* A caller enters Chat.create(participant1, participant2, profile).
CreateCall(c, participant1, participant2, profile) ==
    /\ creating[c].pc = "idle"
    /\ creating[c].calls < MaxCalls
    /\ participant1 # participant2
    /\ creating' = [creating EXCEPT ![c] =
            [pc |-> "exists", participant1 |-> participant1, participant2 |-> participant2,
             profile |-> profile, result |-> 0, calls |-> @.calls + 1]]
    /\ last' = NoStep
    /\ UNCHANGED <<status, room_name, user, groups, inbox, wire, is_deleted, chats, messages,
                   attachments, blobs, pc, pending, nrecv, nlate, audit>>

\* if chat.exists(): return chat.first(). No row and no participant is ever
\* removed, so the second query finds what the first one found.
CreateExists(c) ==
    /\ creating[c].pc = "exists"
    /\ LET found == ChatFilter(chats, creating[c].participant1, creating[c].participant2,
                               creating[c].profile)
       IN creating' = [creating EXCEPT ![c] =
            IF found # {} THEN [@ EXCEPT !.pc = "idle", !.result = First(found)]
            ELSE [@ EXCEPT !.pc = "create"]]
    /\ last' = NoStep
    /\ UNCHANGED <<status, room_name, user, groups, inbox, wire, is_deleted, chats, messages,
                   attachments, blobs, pc, pending, nrecv, nlate, audit>>

\* chat = cls.objects.create(profile=profile): a row without participants.
CreateInsert(c) ==
    /\ creating[c].pc = "create"
    /\ chats' = Append(chats, [profile |-> creating[c].profile, participants |-> {}])
    /\ creating' = [creating EXCEPT ![c] = [@ EXCEPT !.pc = "add", !.result = Len(chats) + 1]]
    /\ last' = NoStep
    /\ UNCHANGED <<status, room_name, user, groups, inbox, wire, is_deleted, messages,
                   attachments, blobs, pc, pending, nrecv, nlate, audit>>

\* chat.participants.add(participant1, participant2); return chat.
CreateAdd(c) ==
    /\ creating[c].pc = "add"
    /\ chats' = [chats EXCEPT ![creating[c].result] =
            [@ EXCEPT !.participants = {creating[c].participant1, creating[c].participant2}]]
    /\ creating' = [creating EXCEPT ![c] = [@ EXCEPT !.pc = "idle"]]
    /\ last' = NoStep
    /\ UNCHANGED <<status, room_name, user, groups, inbox, wire, is_deleted, messages,
                   attachments, blobs, pc, pending, nrecv, nlate, audit>>

\* Callers of Chat.create, each running the method a statement at a time.
NextCreate ==
    \/ \E c \in Callers, participant1, participant2 \in Users, profile \in Profiles :
            CreateCall(c, participant1, participant2, profile)
    \/ \E c \in Callers : CreateExists(c)
    \/ \E c \in Callers : CreateInsert(c)
    \/ \E c \in Callers : CreateAdd(c)

SpecCreate == Init /\ [][NextCreate]_vars

\* ------------------------------------------------- viewed specification
\* The operations that write Message rows or their viewed flag: clients that
\* authenticate and send messages, and the REST views.
ViewedFrames ==
    {Frame("set_token", "t1", "none", "none", 1, "none"),
     Frame("new_message", "none", "u1", "r1", 1, "none"),
     Frame("new_message", "none", "u2", "r1", 1, "none")}

\* The room the clients connect to, and the chat that gets deleted.
ViewedRoom == "r1"

NextViewed ==
    \/ \E s \in Sessions : Connect(s, ViewedRoom)
    \/ \E s \in Sessions : \E d \in ViewedFrames : ReceiveSetToken(s, d)
    \/ \E s \in Sessions : \E d \in ViewedFrames : ReceiveNewMessage(s, d)
    \/ \E s \in Sessions : SendChatMessage(s)
    \/ \E s \in Sessions : ChatMessage(s)
    \/ ChatDelete(ViewedRoom)
    \/ \E u \in Users, kwarg \in UrlKwargs, room \in Rooms : MarkMessagesAsViewed(u, kwarg, room)

SpecViewed == Init /\ [][NextViewed]_vars

\* ------------------------------------------------- paging specification
\* fetch_messages over a Message table of up to MaxRows rows: one client,
\* connected to r1 and authenticated, asks for pages of r1.
PageNumbers == {-1, 0, 1, 2, 3, 4}

\* A table of n rows in commit order; with stride > 0 every stride-th row
\* belongs to the other room.
Table(n, stride) ==
    [i \in 1..n |->
        [id |-> i, author |-> "u1",
         chat |-> IF stride > 0 /\ i % stride = 0 THEN "r2" ELSE "r1",
         text |-> MessageText, created_at |-> i, viewed |-> FALSE]]

PageInit ==
    /\ status = [s \in Sessions |-> IF s = "s1" THEN "open" ELSE "new"]
    /\ room_name = [s \in Sessions |-> IF s = "s1" THEN "r1" ELSE NoRoom]
    /\ user = [s \in Sessions |-> IF s = "s1" THEN "u1" ELSE Anonymous]
    /\ groups = [g \in GroupNames |-> IF g = GroupName("r1") THEN {"s1"} ELSE {}]
    /\ inbox = [s \in Sessions |-> <<>>]
    /\ wire = [s \in Sessions |-> <<>>]
    /\ is_deleted = [r \in Rooms |-> FALSE]
    /\ chats = <<>>
    /\ creating = [c \in Callers |-> NoCall]
    /\ \E n \in 0..MaxRows, stride \in {0, 3} :
        /\ messages = Table(n, stride)
        /\ audit = [i \in 1..n |-> [members |-> {}, via |-> "new_message", by |-> "u1"]]
    /\ attachments = {}
    /\ blobs = {}
    /\ pc = [s \in Sessions |-> "idle"]
    /\ pending = [s \in Sessions |-> NoContent]
    /\ nrecv = [s \in Sessions |-> 0]
    /\ nlate = [s \in Sessions |-> 0]
    /\ last = NoStep

PageNext ==
    \E p \in PageNumbers :
        ReceiveFetchMessages("s1", Frame("fetch_messages", "none", "none", "r1", p, "none"))

SpecPage == PageInit /\ [][PageNext]_vars

\* ================================================================ claims
\* The step just taken was session s handling a frame of command c.
Handling(s, c) == last'.op = "receive" /\ last'.s = s /\ last'.data.command = c
JustHandled(c) == last.op = "receive" /\ last.data.command = c

\* The frames on a wire that carry message id, with or without the
\* {command: "new_message"} envelope.
Carries(f, id) ==
    \/ IsView(f) /\ f.id = id
    \/ IsCommand(f, "new_message") /\ f.message.id = id
Delivered(s, id) == Cardinality({k \in DOMAIN wire[s] : Carries(wire[s][k], id)})

Quiescent == \A t \in Sessions : pc[t] = "idle" /\ inbox[t] = <<>>

\* Nobody joined or left the room of message i since its commit.
Stable(i) ==
    /\ LiveMembers(messages[i].chat) = audit[i].members
    /\ \A t \in Sessions : status[t] \in {"new", "open"}

\* C1: a committed new_message is delivered exactly once to each live session
\* joined to the message's room at commit, the sender among them, and to no
\* other session.
C1_ExactlyOncePerMember ==
    \A i \in DOMAIN messages :
        (audit[i].via = "new_message" /\ Quiescent /\ Stable(i)) =>
            \A t \in Sessions :
                Delivered(t, i) = IF t \in audit[i].members THEN 1 ELSE 0

\* The content a frame or event carries refers to a stored row.
Stored(view) ==
    /\ view.id \in DOMAIN messages
    /\ messages[view.id].text = view.content
    /\ messages[view.id].chat = view.room_id
    /\ ("attachment" \in DOMAIN view =>
            \E a \in attachments : a.message = view.id /\ a.file = view.attachment.url)

\* C2: persistence precedes broadcast: whatever is about to be sent to a
\* group, is queued for a consumer, was written to a socket or was returned
\* by fetch_messages is a committed Message row (with its Attachment row).
C2_PersistBeforeBroadcast ==
    \A s \in Sessions :
        /\ pc[s] = "send" => Stored(pending[s].message)
        /\ \A k \in DOMAIN inbox[s] : Stored(inbox[s][k].message)
        /\ \A k \in DOMAIN wire[s] :
            /\ IsView(wire[s][k]) => Stored(wire[s][k])
            /\ IsCommand(wire[s][k], "new_message") => Stored(wire[s][k].message)
            /\ IsCommand(wire[s][k], "messages") =>
                    \A j \in DOMAIN wire[s][k].messages : Stored(wire[s][k].messages[j])

C2_Witness ==
    \E s \in Sessions : \E k \in DOMAIN wire[s] :
        /\ IsView(wire[s][k])
        /\ "attachment" \in DOMAIN wire[s][k]
        /\ \E j \in DOMAIN wire[s] : IsView(wire[s][j]) /\ "attachment" \notin DOMAIN wire[s][j]

\* C3: every session sees the frames of one room's messages in the order of
\* their commits.
C3_BroadcastOrderIsCommitOrder ==
    \A s \in Sessions : \A p, q \in DOMAIN wire[s] :
        (/\ p < q
         /\ IsView(wire[s][p]) /\ IsView(wire[s][q])
         /\ wire[s][p].room_id = wire[s][q].room_id)
        => wire[s][p].id < wire[s][q].id

\* Nothing but session s's socket changes in the step.
OnlySocketOf(s) ==
    /\ \A t \in Sessions \ {s} : status'[t] = status[t] /\ wire'[t] = wire[t]
    /\ UNCHANGED <<room_name, user, groups, inbox, messages, attachments, blobs,
                   pc, pending, audit>>

\* The wire of s after the handler sent the frames: they reach the socket
\* if it is open; a socket that is already closed takes none.
Written(s, frames) == IF status[s] = "open" THEN wire[s] \o frames ELSE wire[s]

\* C4: fetch_messages, new_message or share_file on a session that is not
\* authenticated closes the session and does nothing else: no frame is sent,
\* no row is written, nothing is broadcast.
C4_UnauthenticatedCommandCloses ==
    [][\A s \in Sessions :
        ((\E c \in GatedCommands : Handling(s, c)) /\ ~last'.auth) =>
            /\ status'[s] = "closing"
            /\ wire'[s] = Written(s, <<CloseFrame>>)
            /\ OnlySocketOf(s)]_vars

C4_Witness ==
    /\ \E c \in GatedCommands : JustHandled(c)
    /\ ~last.auth
    /\ status[last.s] = "closing"

\* C5: set_token with an unknown token writes the one frame
\* {command: "error", message: "Invalid token."} to the issuer, then closes
\* it; the session's user is unchanged and no other session is touched.
C5_InvalidTokenErrorThenClose ==
    [][\A s \in Sessions :
        (Handling(s, "set_token") /\ last'.data.token \notin DOMAIN TokenStore) =>
            /\ wire'[s] = Written(s, <<ErrorFrame("Invalid token."), CloseFrame>>)
            /\ status'[s] = "closing"
            /\ OnlySocketOf(s)]_vars

C5_Witness ==
    /\ JustHandled("set_token")
    /\ last.data.token = BadToken
    /\ status[last.s] = "closing"
    /\ user[last.s] = Anonymous

\* C6: a command that is none of the four, on an authenticated session, is
\* answered with the one frame {command: "error", message: "Invalid
\* command."} to the issuer, and the session stays open.
C6_UnknownCommandAnswered ==
    [][\A s \in Sessions :
        (/\ last'.op = "receive" /\ last'.s = s /\ last'.auth
         /\ status[s] = "open"
         /\ last'.data.command \notin GatedCommands \cup {"set_token"}) =>
            /\ wire'[s] = Append(wire[s], ErrorFrame("Invalid command."))
            /\ status'[s] = "open"
            /\ OnlySocketOf(s)]_vars

\* C7: new_message whose author or room does not resolve is answered with
\* one error frame to the issuer ("Author not found." / "Chat room not
\* found."); no row, no broadcast, the session stays open and authenticated.
C7_NotFoundAnswered ==
    [][\A s \in Sessions :
        (/\ Handling(s, "new_message") /\ last'.auth
         /\ status[s] = "open"
         /\ (last'.data.from \notin Users \/ last'.data.room_id \notin Rooms)) =>
            /\ wire'[s] = Append(wire[s], ErrorFrame(
                    IF last'.data.from \notin Users THEN "Author not found."
                    ELSE "Chat room not found."))
            /\ status'[s] = "open"
            /\ OnlySocketOf(s)]_vars

\* A row share_file wrote: its text is "File: <filename>".
IsFileMessage(m) == m.text = "File: " \o FileName

\* C8: a Message row of share_file exists iff its Attachment row and the
\* stored file exist, in every state; a share_file whose transaction fails
\* leaves no row behind and broadcasts nothing.
C8_AttachmentAtomicity ==
    /\ [](/\ \A i \in DOMAIN messages :
                IsFileMessage(messages[i]) =>
                    \E a \in attachments : a.message = i /\ a.file \in blobs
          /\ \A a \in attachments :
                /\ a.message \in DOMAIN messages
                /\ IsFileMessage(messages[a.message])
                /\ a.file \in blobs)
    /\ [][\A s \in Sessions :
            (Handling(s, "share_file") /\ last'.fault # "none") =>
                /\ messages' = messages
                /\ attachments' = attachments
                /\ inbox' = inbox
                /\ pc'[s] = "idle"]_vars

C8_Witness ==
    /\ JustHandled("share_file")
    /\ last.fault = "blob"
    /\ status[last.s] = "crashed"
    /\ attachments = {}

\* --- paging claims, over SpecPage
PageClient == "s1"
PageRoom == "r1"
RoomRows(room) == {messages[i] : i \in {j \in DOMAIN messages : messages[j].chat = room}}

\* The frame fetch_messages answers a request for page p of PageRoom with.
Reply(p) ==
    FetchMessages([status |-> "open", wire |-> <<>>], messages, attachments,
                  Frame("fetch_messages", "none", "none", PageRoom, p, "none")).wire[1]

Ids(frame) == [k \in DOMAIN frame.messages |-> frame.messages[k].id]
Descending(ids) ==
    \A k \in 1..(Len(ids) - 1) : messages[ids[k]].created_at > messages[ids[k + 1]].created_at

RECURSIVE ConcatPages(_, _)
ConcatPages(p, max_pages) ==
    IF p > max_pages THEN <<>> ELSE Ids(Reply(p)) \o ConcatPages(p + 1, max_pages)

LastFrame(s) == wire[s][Len(wire[s])]

\* C9: a page of fetch_messages is in descending order of creation, and
\* pages 1..max_pages, twenty messages each but the last, put together are
\* every message of the room exactly once, newest first.
C9_PagesPartitionHistory ==
    /\ \A k \in DOMAIN wire[PageClient] :
            IsCommand(wire[PageClient][k], "messages") => Descending(Ids(wire[PageClient][k]))
    /\ LET max_pages == Reply(1).max_pages
           all == ConcatPages(1, max_pages)
       IN /\ Descending(all)
          /\ {all[k] : k \in DOMAIN all} = {m.id : m \in RoomRows(PageRoom)}
          /\ Len(all) = Cardinality(RoomRows(PageRoom))
          /\ \A p \in 1..(max_pages - 1) : Len(Ids(Reply(p))) = MessagesPerPage

C9_Witness ==
    /\ JustHandled("fetch_messages")
    /\ last.data.page_number = 2
    /\ LastFrame(PageClient).max_pages = 2
    /\ Len(LastFrame(PageClient).messages) \in 1..(MessagesPerPage - 1)
    /\ \E i \in DOMAIN messages : messages[i].chat # PageRoom

\* C10, as claimed: a page number outside 1..max_pages, on an existing
\* room, is answered with a messages frame of zero messages.
C10_OutOfRangePageIsEmpty ==
    (JustHandled("fetch_messages") /\ last.data.room_id \in Rooms) =>
        LET f == LastFrame(last.s)
        IN /\ IsCommand(f, "messages")
           /\ last.data.page_number \notin 1..f.max_pages => f.messages = <<>>

\* The k oldest rows of a room.
Oldest(rows, k) ==
    {m \in rows : Cardinality({n \in rows : n.created_at <= m.created_at}) <= k}

\* C10, amended: a page number outside 1..max_pages, on an existing room, is
\* answered with a messages frame, never an error frame, that holds the last
\* page: the oldest count - 20 * (max_pages - 1) messages, newest first; it
\* is empty only when the room has no message.
C10_OutOfRangePageIsLastPage ==
    (JustHandled("fetch_messages") /\ last.data.room_id \in Rooms) =>
        LET f == LastFrame(last.s)
            rows == RoomRows(last.data.room_id)
            count == Cardinality(rows)
        IN /\ IsCommand(f, "messages")
           /\ last.data.page_number \notin 1..f.max_pages =>
                LET ids == Ids(f)
                    k == IF count = 0 THEN 0
                         ELSE count - MessagesPerPage * (f.max_pages - 1)
                IN /\ Len(ids) = k
                   /\ count > 0 => k >= 1
                   /\ Descending(ids)
                   /\ {ids[j] : j \in DOMAIN ids} = {m.id : m \in Oldest(rows, k)}

C10_Witness ==
    /\ JustHandled("fetch_messages")
    /\ last.data.page_number = 4
    /\ LastFrame(PageClient).max_pages = 3
    /\ Len(LastFrame(PageClient).messages) = 2

\* C11: the max_pages of a messages frame is ceil(total_count / 20), the least
\* k with 20 * k >= total_count (0 for a room without messages), whatever
\* page_number was asked for.
C11_MaxPagesIsCeiling ==
    LET count == Cardinality(RoomRows(PageRoom))
        IsCeiling(k) ==
            /\ k \in Nat
            /\ MessagesPerPage * k >= count
            /\ k > 0 => MessagesPerPage * (k - 1) < count
    IN /\ \A p \in PageNumbers :
            /\ IsCommand(Reply(p), "messages")
            /\ IsCeiling(Reply(p).max_pages)
       /\ JustHandled("fetch_messages") => IsCeiling(LastFrame(last.s).max_pages)

C11_Witness ==
    /\ JustHandled("fetch_messages")
    /\ last.data.page_number = -1
    /\ Cardinality(RoomRows(PageRoom)) = MessagesPerPage + 1
    /\ LastFrame(PageClient).max_pages = 2
    /\ \E k \in DOMAIN wire[PageClient] :
            wire[PageClient][k].max_pages = 2 /\ Len(wire[PageClient][k].messages) = MessagesPerPage

\* --- registry claims, over Spec
\* The consumer of s has stopped: it handles no further event.
Stopped(s) == status[s] \in {"closed", "crashed"}
MemberOf(s) == {g \in GroupNames : s \in groups[g]}

Leaving(s) == status[s] = "closing" /\ status'[s] = "closed"

IsClosed(s) ==
    \/ Stopped(s)
    \/ wire[s] # <<>> /\ LastFrame(s) = CloseFrame

\* C14: the lifecycle moves forward only: set_token with a known token binds
\* the session to the token's user; an authenticated session never becomes
\* anonymous again; a closed session is never open again and its
\* authentication no longer changes.
C14_LifecycleMovesForward ==
    [][\A s \in Sessions :
        /\ (/\ Handling(s, "set_token")
            /\ last'.data.token \in DOMAIN TokenStore
            /\ ~IsClosed(s)) => user'[s] = TokenStore[last'.data.token]
        /\ IsAuthenticated(s) => user'[s] # Anonymous
        /\ IsClosed(s) => (status'[s] \notin {"new", "open"} /\ user'[s] = user[s])]_vars

\* --- fan-out claims, over Spec
\* C15: a frame of a new_message stored in room R reaches only sessions
\* joined to R, and it reaches every session joined to R, whatever room the
\* sender's connection is bound to.
C15_FanOutToMessageRoom ==
    /\ \A s \in Sessions : \A k \in DOMAIN wire[s] :
            (IsView(wire[s][k]) /\ audit[wire[s][k].id].via = "new_message") =>
                s \in groups[GroupName(wire[s][k].room_id)] \/ IsClosed(s)
    /\ \A i \in DOMAIN messages :
            (audit[i].via = "new_message" /\ Quiescent /\ Stable(i)) =>
                \A t \in audit[i].members : Delivered(t, i) >= 1

\* The frames on a wire that carry message id with its attachment.
DeliveredWithAttachment(s, id) ==
    \E k \in DOMAIN wire[s] :
        /\ Carries(wire[s][k], id)
        /\ IF IsView(wire[s][k]) THEN "attachment" \in DOMAIN wire[s][k]
           ELSE "attachment" \in DOMAIN wire[s][k].message

\* C16: a share_file whose rows are committed is broadcast: its handler is
\* about to group_send the view, or every session that was joined to the
\* message's room has the view, with its attachment, on its socket.
C16_CommittedFileIsBroadcast ==
    \A i \in DOMAIN messages :
        audit[i].via = "share_file" =>
            /\ HasAttachment(attachments, messages[i])
            /\ (Quiescent /\ Stable(i)) =>
                    \A t \in audit[i].members : DeliveredWithAttachment(t, i)

\* C17: share_file whose author or room does not resolve is answered as
\* new_message answers it: one error frame to the issuer ("Author not
\* found." / "Chat room not found."), no row, no broadcast, and the session
\* stays open.
C17_ShareFileNotFoundAnswered ==
    [][\A s \in Sessions :
        (/\ Handling(s, "share_file") /\ last'.auth
         /\ status[s] = "open"
         /\ (last'.data.from \notin Users \/ last'.data.room_id \notin Rooms)) =>
            /\ wire'[s] = Append(wire[s], ErrorFrame(
                    IF last'.data.from \notin Users THEN "Author not found."
                    ELSE "Chat room not found."))
            /\ status'[s] = "open"
            /\ OnlySocketOf(s)]_vars

\* --- soft delete, over SpecViews
\* C18: a connection made to a room that is already soft-deleted is not
\* joined to the room's group, and deleting a room leaves its messages and
\* attachments as they are.
C18_DeletedRoomRejectsJoin ==
    [][/\ \A s \in Sessions :
            (status[s] = "new" /\ status'[s] = "open" /\ is_deleted[room_name'[s]]) =>
                s \notin groups'[GroupName(room_name'[s])]
       /\ is_deleted' # is_deleted => UNCHANGED <<messages, attachments, blobs>>]_vars

\* --- membership claims, over Spec
\* C19: from accept to disconnect a session is in exactly one group, the one
\* of its URL's room, authenticated or not; before connect and after
\* disconnect it is in none; no frame it receives, whatever room_id the
\* frame names, changes its room or any membership.
C19_OneGroupPerConnection ==
    /\ [](\A s \in Sessions :
            /\ status[s] \in {"new", "closed"} => MemberOf(s) = {}
            /\ status[s] \in {"open", "closing", "crashed"} =>
                    /\ room_name[s] \in UrlRooms[s]
                    /\ MemberOf(s) = {GroupName(room_name[s])})
    /\ [][\A s \in Sessions :
            /\ status[s] # "new" => room_name'[s] = room_name[s]
            /\ last'.op = "receive" => UNCHANGED <<groups, room_name>>]_vars

C19_Witness ==
    /\ JustHandled("share_file")
    /\ last.data.room_id = "r2"
    /\ room_name[last.s] = "r1"
    /\ pc[last.s] = "send"
    /\ MemberOf(last.s) = {GroupName("r1")}
    /\ \E t \in Sessions : status[t] = "open" /\ ~IsAuthenticated(t) /\ MemberOf(t) = {GroupName("r2")}

\* C20: fetch_messages on an authenticated session writes one frame to the
\* issuer's socket, a messages frame for a room that exists and the error
\* frame "Chat room not found." for one that does not, and changes nothing
\* else: no row, no chat, no membership, no queue, no other socket.
C20_FetchIsReadOnly ==
    [][\A s \in Sessions :
        (Handling(s, "fetch_messages") /\ last'.auth /\ status[s] = "open") =>
            /\ OnlySocketOf(s)
            /\ UNCHANGED is_deleted
            /\ status'[s] = "open"
            /\ Len(wire'[s]) = Len(wire[s]) + 1
            /\ SubSeq(wire'[s], 1, Len(wire[s])) = wire[s]
            /\ LET reply == wire'[s][Len(wire'[s])]
               IN IF last'.data.room_id \in Rooms
                  THEN IsCommand(reply, "messages")
                  ELSE reply = ErrorFrame("Chat room not found.")]_vars

\* The mark-as-viewed request of the step, if the step is one.
Marking == last'.op = "patch"
Requester == last'.data.from
MarkedChat == last'.data.room_id

\* C21: every Message is created with viewed = false; the flag of a message
\* becomes true only in a mark-as-viewed step on the message's chat requested
\* by a user who is not its author; such a step leaves every message of the
\* requester as it was; and no step sets a flag back to false.
C21_ViewedOnlyByOthersMark ==
    [][/\ \A i \in DOMAIN messages' \ DOMAIN messages : ~messages'[i].viewed
       /\ \A i \in DOMAIN messages :
            /\ i \in DOMAIN messages'
            /\ messages[i].viewed => messages'[i].viewed
            /\ (~messages[i].viewed /\ messages'[i].viewed) =>
                    /\ Marking
                    /\ MarkedChat = messages[i].chat
                    /\ Requester # messages[i].author
            /\ (Marking /\ Requester = messages[i].author) => messages'[i] = messages[i]]_vars

\* A request of u1 has marked the message of u2 in a chat and left u1's own
\* message of that chat not viewed.
C21_Witness ==
    /\ last.op = "patch"
    /\ last.data.from = "u1"
    /\ \E i, j \in DOMAIN messages :
        /\ messages[i].chat = last.data.room_id
        /\ messages[j].chat = last.data.room_id
        /\ messages[i].author = "u2" /\ messages[i].viewed
        /\ messages[j].author = "u1" /\ ~messages[j].viewed

\* The frames whose command is none of the four the consumer knows: an
\* unknown command or no command at all.
Unknown(d) == d.command \notin GatedCommands \cup {"set_token"}

\* C22: a frame with an unknown or missing command received by an open,
\* unauthenticated session does nothing: the session stays open and
\* unauthenticated, nothing is written to any socket, no row is created,
\* nothing is broadcast and no group changes.
C22_UnknownCommandIsNoOp ==
    [][\A s \in Sessions :
        (last'.op = "receive" /\ last'.s = s /\ Unknown(last'.data)
            /\ ~last'.auth /\ status[s] = "open") =>
            /\ status'[s] = "open"
            /\ wire'[s] = wire[s]
            /\ user'[s] = Anonymous
            /\ OnlySocketOf(s)]_vars

\* An open unauthenticated session has just handled a frame without a
\* command, the second frame it ignored.
C22_Witness ==
    /\ last.op = "receive"
    /\ last.data.command = NoCommand
    /\ ~last.auth
    /\ status[last.s] = "open"
    /\ nrecv[last.s] = 2

\* The rows a step adds to the Message table.
NewRows == {i \in DOMAIN messages' : i \notin DOMAIN messages}

\* C23: every Message row created by new_message or share_file has as its
\* author the user the issuing session authenticated as with set_token; the
\* from field of the frame cannot attribute the message to somebody else.
C23_AuthorIsAuthenticatedUser ==
    [][\A s \in Sessions :
        (Handling(s, "new_message") \/ Handling(s, "share_file")) =>
            \A i \in NewRows : messages'[i].author = user[s]]_vars

\* Two chats of the same profile (or of none) with the same two participants.
Duplicates(i, j) ==
    /\ i # j
    /\ chats[i].profile = chats[j].profile
    /\ chats[i].participants = chats[j].participants
    /\ chats[i].participants # {}

\* The chats that already match the call caller c is making.
Existing(c) ==
    ChatFilter(chats, creating[c].participant1, creating[c].participant2, creating[c].profile)

\* C24: Chat.create is find-or-create: whatever calls were made, concurrent
\* ones and ones with the participants swapped included, no two chats have
\* the same profile (or no profile) and the same pair of participants; and a
\* call for a pair that has a chat returns that chat and creates no row.
C24_CreateIsFindOrCreate ==
    /\ [](\A i, j \in DOMAIN chats : ~Duplicates(i, j))
    /\ [][\A c \in Callers :
            (creating[c].pc = "exists" /\ creating'[c].pc # "exists" /\ Existing(c) # {}) =>
                /\ chats' = chats
                /\ creating'[c].pc = "idle"
                /\ creating'[c].result \in Existing(c)]_vars

====
